---- MODULE Spec2Model ----
(***************************************************************************)
(* Property & Contracts Manager (src/property_manager_improved_app.py).    *)
(*                                                                         *)
(* The model covers the SQLite store (users, properties, sqlite_sequence), *)
(* the schema initializer init_db, the session-identity resolver           *)
(* current_user / login_required and the seven registered routes.          *)
(*                                                                         *)
(* Text values are sequences of one-character strings, so that strip(),    *)
(* lower() and SQLite's LIKE are computed character by character.          *)
(* An optional value (Python None, SQL NULL, an absent form field) is the  *)
(* empty tuple None; a present value x is the one-element tuple Some(x).   *)
(***************************************************************************)
EXTENDS Integers, Sequences, FiniteSets, TLC

VARIABLES
    phase,       \* where the process is: "import", "main" or "serving"
    tables,      \* names of the tables that exist in the database file
    users,       \* committed rows of table users
    properties,  \* committed rows of table properties
    seq,         \* sqlite_sequence entry of properties (largest id ever issued)
    deleted,     \* history: ids of the rows removed by delete_property
    session,     \* session["user_id"] of the browser; NoUid when not set
    last,        \* what the most recent run of init_db or request did
    pc,          \* concurrent first start: position of each worker in init_db
    cnt,         \* concurrent first start: COUNT(*) read by each worker
    pend,        \* concurrent first start: uncommitted seed row of each worker
    wlock,       \* concurrent first start: connection holding the write lock
    err          \* concurrent first start: exception raised in each worker

vars == <<phase, tables, users, properties, seq, deleted, session, last,
          pc, cnt, pend, wlock, err>>

dbVars == <<tables, users, properties, seq, deleted>>
bootVars == <<pc, cnt, pend, wlock, err>>

----------------------------------------------------------------------------
(* Bounds of the model. *)

\* Largest number of rows ever inserted into properties.
MaxProps == 2

----------------------------------------------------------------------------
(* Optional values and text. *)

None == <<>>
Some(x) == <<x>>
IsSome(o) == o # <<>>
Val(o) == o[1]

\* dict.get(key, default) of request.args / request.form
GetOr(o, default) == IF IsSome(o) THEN Val(o) ELSE default

\* str.lower() on the letters the model's inputs use
LowerChar(c) ==
    CASE c = "A" -> "a"
      [] c = "B" -> "b"
      [] c = "E" -> "e"
      [] c = "V" -> "v"
      [] OTHER -> c

Lower(s) == [i \in 1..Len(s) |-> LowerChar(s[i])]

IsSpace(c) == c = " "

RECURSIVE LStrip(_)
LStrip(s) ==
    IF s # <<>> /\ IsSpace(Head(s)) THEN LStrip(Tail(s)) ELSE s

RECURSIVE RStrip(_)
RStrip(s) ==
    IF s # <<>> /\ IsSpace(s[Len(s)]) THEN RStrip(SubSeq(s, 1, Len(s) - 1)) ELSE s

\* str.strip()
Strip(s) == LStrip(RStrip(s))

\* SQLite's LIKE: % matches any run of characters, _ matches any one
\* character, every other character matches itself ignoring ASCII case.
RECURSIVE LikeMatch(_, _)
LikeMatch(pat, s) ==
    IF pat = <<>> THEN s = <<>>
    ELSE IF Head(pat) = "%"
         THEN LikeMatch(Tail(pat), s) \/ (s # <<>> /\ LikeMatch(pat, Tail(s)))
         ELSE /\ s # <<>>
              /\ (Head(pat) = "_" \/ LowerChar(Head(pat)) = LowerChar(Head(s)))
              /\ LikeMatch(Tail(pat), Tail(s))

\* column LIKE ? on a nullable column: NULL LIKE x is NULL, which is not true
SqlLike(col, pat) == IsSome(col) /\ LikeMatch(pat, Val(col))

----------------------------------------------------------------------------
(* Values of the program. *)

Vacant == <<"v", "a", "c", "a", "n", "t">>
Occupied == <<"o", "c", "c", "u", "p", "i", "e", "d">>

SeedEmail == <<"a", "d", "m", "i", "n", "@", "e", "x", "a", "m", "p", "l", "e", ".", "c", "o", "m">>
SeedPassword == <<"a", "d", "m", "i", "n", "1", "2", "3">>

\* werkzeug's salted one-way hash: only check_password_hash reads it
generate_password_hash(pw) == [method |-> "pbkdf2", of |-> pw]
check_password_hash(h, pw) == h = generate_password_hash(pw)

NoUid == 0

----------------------------------------------------------------------------
(* The store. *)

TableNames == {"users", "properties"}

\* a users table whose email column carries no UNIQUE constraint
UniqueEmailOkNoConstraint(us, email) == TRUE

\* email TEXT UNIQUE NOT NULL: whether a row with this email may be inserted
UniqueEmailOk(us, email) == \A u \in us : u.email # email

\* id INTEGER PRIMARY KEY AUTOINCREMENT of users (no row of users is ever deleted)
NextUserId(us) == Cardinality(us) + 1

\* the seed row of init_db with the email left unnormalised
SeedRowCapitalised(us) ==
    [id |-> NextUserId(us),
     email |-> <<"A">> \o Tail(SeedEmail),
     password_hash |-> generate_password_hash(SeedPassword),
     role |-> "admin"]

\* the row init_db inserts: ("admin@example.com", hash("admin123"), "admin", now)
SeedRow(us) ==
    [id |-> NextUserId(us),
     email |-> SeedEmail,
     password_hash |-> generate_password_hash(SeedPassword),
     role |-> "admin"]

\* SELECT COUNT(*) FROM users ... == 0
SeedNeeded(n) == n = 0

\* SELECT * FROM users WHERE id=? ... fetchone()
UserById(us, uid) ==
    IF \E u \in us : u.id = uid THEN Some(CHOOSE u \in us : u.id = uid) ELSE None

\* SELECT * FROM users WHERE email=? ... fetchone()
UserByEmail(us, email) ==
    IF \E u \in us : u.email = email
    THEN Some(CHOOSE u \in us : u.email = email) ELSE None

\* SELECT * FROM properties WHERE id=? ... fetchone()
GetById(ps, pid) ==
    IF \E r \in ps : r.id = pid THEN Some(CHOOSE r \in ps : r.id = pid) ELSE None

\* the id a plain INTEGER PRIMARY KEY would give: one more than the largest live id
NextPropertyIdReusing(ps, sq) ==
    IF ps = {} THEN 1
    ELSE (CHOOSE m \in {r.id : r \in ps} : \A r \in ps : r.id <= m) + 1

\* id INTEGER PRIMARY KEY AUTOINCREMENT: one more than the largest id ever issued
NextPropertyId(ps, sq) == sq + 1

\* the row stored when the address and status parameters are bound in each
\* other's place
PropertyRowSwapped(id, form, now) ==
    [id |-> id,
     name |-> Val(form.name),
     address |-> Some(GetOr(form.status, Vacant)),
     status |-> GetOr(form.address, Vacant),
     created_at |-> now]

\* the row INSERT INTO properties (name,address,status,created_at) stores
PropertyRow(id, form, now) ==
    [id |-> id,
     name |-> Val(form.name),
     address |-> form.address,
     status |-> GetOr(form.status, Vacant),
     created_at |-> now]

\* UPDATE properties SET name=?, address=?, status=? WHERE id=?
UpdatedRow(r, form) ==
    [r EXCEPT !.name = Val(form.name),
              !.address = form.address,
              !.status = GetOr(form.status, Vacant)]

----------------------------------------------------------------------------
(* The listing's query. *)

\* the WHERE clause with the status test in an elif of the text test
WhereElif(q, status) ==
    IF q # <<>> THEN << [kind |-> "like", arg |-> <<"%">> \o q \o <<"%">>] >>
    ELSE IF status # <<>> THEN << [kind |-> "status", arg |-> status] >>
    ELSE <<>>

\* the conditions appended to "WHERE 1=1", each with its bound parameter
Where(q, status) ==
    (IF q # <<>> THEN << [kind |-> "like", arg |-> <<"%">> \o q \o <<"%">>] >> ELSE <<>>)
    \o (IF status # <<>> THEN << [kind |-> "status", arg |-> status] >> ELSE <<>>)

\* one condition on one row
Holds(cond, r) ==
    IF cond.kind = "like"
    THEN SqlLike(Some(r.name), cond.arg) \/ SqlLike(r.address, cond.arg)
    ELSE r.status = cond.arg

\* the rows that satisfy every condition (the conditions are joined by AND)
Select(ps, conds) == {r \in ps : \A i \in 1..Len(conds) : Holds(conds[i], r)}

\* ORDER BY created_at DESC
RECURSIVE OrderByCreatedDesc(_)
OrderByCreatedDesc(rs) ==
    IF rs = {} THEN <<>>
    ELSE LET newest == CHOOSE r \in rs : \A o \in rs : o.created_at <= r.created_at
         IN <<newest>> \o OrderByCreatedDesc(rs \ {newest})

\* the ids of the rows of a result, in its order
Ids(rowSeq) == [i \in 1..Len(rowSeq) |-> rowSeq[i].id]

\* the rows the listing fetches for the raw request arguments q and status
ListRows(ps, qArg, statusArg) ==
    LET q == Strip(GetOr(qArg, <<>>))
        status == Strip(GetOr(statusArg, <<>>))
    IN OrderByCreatedDesc(Select(ps, Where(q, status)))

----------------------------------------------------------------------------
(* Identity. *)

\* current_user without the lookup of the row
current_user_unchecked(sess, us) ==
    IF sess = NoUid THEN None ELSE Some([id |-> sess])

\* current_user(): the users row of session["user_id"], or None
current_user(sess, us) ==
    IF sess = NoUid THEN None ELSE UserById(us, sess)

\* connections one call of current_user() opens (each is closed before it returns)
CuConns(sess) == IF sess = NoUid THEN 0 ELSE 1

\* render_template_string with the given user: BASE_HTML builds url_for('logout')
\* when user is true, and no endpoint of that name is registered
RenderOutcome(userArg) == IF IsSome(userArg) THEN "error500" ELSE "render_ok"

----------------------------------------------------------------------------
(* Inputs of the requests. *)

NoForm == [name |-> None, address |-> None, status |-> None]

Sold == <<"s", "o", "l", "d">>

\* submitted property forms: status omitted, a full form, a status outside the
\* form's two options with an empty address, and a form without its name field
Forms ==
    { [name |-> Some(<<"a">>), address |-> None, status |-> None],
      [name |-> Some(<<"A", "b">>), address |-> Some(<<"b", "_">>), status |-> Some(Occupied)],
      [name |-> Some(<<"v">>), address |-> Some(<<>>), status |-> Some(Sold)],
      [name |-> None, address |-> Some(<<"x">>), status |-> Some(Vacant)] }

\* the q argument of the listing: absent, empty, blank, padded, in another
\* letter case, the two LIKE wildcards, and a text no row holds
QArgs ==
    { None, Some(<<>>), Some(<<" ">>), Some(<<" ", "a">>), Some(<<"B">>),
      Some(<<"%">>), Some(<<"_">>), Some(<<"z">>) }

\* the status argument of the listing
StatusArgs == { None, Some(<<>>), Some(Vacant), Some(Occupied) }

\* submitted login forms: the seed account written with padding and capitals,
\* a wrong password, an unknown email, and a form without its email field
LoginForms ==
    { [email |-> Some(<<" ", "A">> \o Tail(SeedEmail) \o <<" ">>), password |-> Some(SeedPassword)],
      [email |-> Some(SeedEmail), password |-> Some(<<"x">>)],
      [email |-> Some(<<"b", "@", "e">>), password |-> Some(SeedPassword)],
      [email |-> None, password |-> Some(SeedPassword)] }

NoLoginForm == [email |-> None, password |-> None]

\* ids a request may name in its URL
Pids == 1..MaxProps

\* a session cookie whose user_id matches no row of users: one past the only
\* id init_db issues
StaleUid == SeedRow({}).id + 1

\* the record of a run or request before anything is filled in
NoReq ==
    [op |-> "none", method |-> "-", sess |-> NoUid,
     outcome |-> "-", flash |-> "-", reads |-> 0, writes |-> 0,
     opened |-> 0, closed |-> 0, q |-> None, status |-> None, rows |-> <<>>,
     pid |-> 0, form |-> NoForm, login |-> NoLoginForm, p |-> None,
     rowid |-> 0, usersBefore |-> 0]

\* the record of a request of the current session
Req(op, method) ==
    [NoReq EXCEPT !.op = op, !.method = method, !.sess = session]

----------------------------------------------------------------------------
(* init_db and the process. *)

\* init_db() run alone: both CREATE TABLE IF NOT EXISTS, then the seed; a seed
\* the UNIQUE constraint rejects raises before conn.close()
InitDbRun(op) ==
    /\ tables' = tables \cup TableNames
    /\ LET seed == SeedNeeded(Cardinality(users))
           accepted == UniqueEmailOk(users, SeedRow(users).email)
       IN /\ users' = IF seed /\ accepted THEN users \cup {SeedRow(users)} ELSE users
          /\ last' = [NoReq EXCEPT !.op = op, !.usersBefore = Cardinality(users),
                                   !.outcome = IF seed /\ ~accepted THEN "IntegrityError" ELSE "ok",
                                   !.opened = 1,
                                   !.closed = IF seed /\ ~accepted THEN 0 ELSE 1]
    /\ UNCHANGED <<properties, seq, deleted, session>>

\* the module-level try: init_db() except: print
ModuleInit ==
    /\ phase = "import"
    /\ InitDbRun("init_db")
    /\ phase' = "main"
    /\ UNCHANGED bootVars

\* the entry point's second init_db(), then app.run
MainInit ==
    /\ phase = "main"
    /\ InitDbRun("init_db_main")
    /\ phase' = "serving"
    /\ UNCHANGED bootVars

\* the process is started again on the same database file
Restart ==
    /\ phase = "serving"
    /\ phase' = "import"
    /\ UNCHANGED <<dbVars, session, last, bootVars>>

----------------------------------------------------------------------------
(* Requests. *)

\* login_required's branch for a request without identity
Unauthenticated(r) ==
    /\ last' = [r EXCEPT !.outcome = "redirect_login",
                         !.flash = "Please log in first.",
                         !.opened = CuConns(session), !.closed = CuConns(session)]
    /\ UNCHANGED <<phase, dbVars, session, bootVars>>

\* GET /
Index ==
    /\ phase = "serving"
    /\ last' = [Req("index", "GET") EXCEPT
                 !.outcome = IF IsSome(current_user(session, users))
                             THEN "redirect_dashboard" ELSE RenderOutcome(None),
                 !.opened = IF IsSome(current_user(session, users))
                            THEN 1 ELSE 2 * CuConns(session),
                 !.closed = IF IsSome(current_user(session, users))
                            THEN 1 ELSE 2 * CuConns(session)]
    /\ UNCHANGED <<phase, dbVars, session, bootVars>>

\* GET /login and POST /login
Login(method, form) ==
    /\ phase = "serving"
    /\ LET r == [Req("login", method) EXCEPT !.login = form]
           email == Strip(Lower(Val(form.email)))
           row == UserByEmail(users, email)
       IN IF method = "GET"
          THEN /\ last' = [r EXCEPT !.outcome = RenderOutcome(None),
                                    !.opened = CuConns(session), !.closed = CuConns(session)]
               /\ session' = session
          ELSE IF ~IsSome(form.email) \/ ~IsSome(form.password)
          THEN /\ last' = [r EXCEPT !.outcome = "error400"]
               /\ session' = session
          ELSE IF IsSome(row) /\ check_password_hash(Val(row).password_hash, Val(form.password))
          THEN /\ session' = Val(row).id
               /\ last' = [r EXCEPT !.outcome = "redirect_dashboard",
                                    !.opened = 1, !.closed = 1]
          ELSE /\ session' = session
               /\ last' = [r EXCEPT !.outcome = RenderOutcome(None),
                                    !.flash = "Invalid credentials",
                                    !.opened = 1 + CuConns(session),
                                    !.closed = 1 + CuConns(session)]
    /\ UNCHANGED <<phase, dbVars, bootVars>>

\* GET /logout: the templates link to it, and no route of that name is registered
Logout ==
    /\ phase = "serving"
    /\ last' = [Req("logout", "GET") EXCEPT !.outcome = "error404"]
    /\ UNCHANGED <<phase, dbVars, session, bootVars>>

\* GET /dashboard
Dashboard ==
    /\ phase = "serving"
    /\ LET r == Req("dashboard", "GET")
           u == current_user(session, users)
       IN IF ~IsSome(u) THEN Unauthenticated(r)
          ELSE /\ last' = [r EXCEPT !.reads = 3, !.opened = 4, !.closed = 4,
                                    !.outcome = RenderOutcome(u),
                                    !.rows = << Cardinality(properties),
                                                Cardinality({x \in properties : x.status = Vacant}),
                                                Cardinality({x \in properties : x.status = Occupied}) >>]
               /\ UNCHANGED <<phase, dbVars, session, bootVars>>

\* GET /properties?q=&status=
Properties(qArg, statusArg) ==
    /\ phase = "serving"
    /\ LET r == [Req("properties", "GET") EXCEPT !.q = qArg, !.status = statusArg]
           u == current_user(session, users)
       IN IF ~IsSome(u) THEN Unauthenticated(r)
          ELSE /\ last' = [r EXCEPT !.reads = 1, !.opened = 4, !.closed = 4,
                                    !.outcome = RenderOutcome(u),
                                    !.rows = Ids(ListRows(properties, qArg, statusArg))]
               /\ UNCHANGED <<phase, dbVars, session, bootVars>>

\* GET /properties/new and POST /properties/new
\* (created_at is the clock's reading, taken to grow from one insert to the next)
NewProperty(method, form) ==
    /\ phase = "serving"
    /\ LET r == [Req("new_property", method) EXCEPT !.form = form]
           u == current_user(session, users)
           id == NextPropertyId(properties, seq)
       IN IF ~IsSome(u) THEN Unauthenticated(r)
          ELSE IF method = "GET"
          THEN /\ last' = [r EXCEPT !.opened = 3, !.closed = 3, !.outcome = RenderOutcome(u)]
               /\ UNCHANGED <<phase, dbVars, session, bootVars>>
          ELSE IF ~IsSome(form.name)
          THEN /\ last' = [r EXCEPT !.opened = 2, !.closed = 1, !.outcome = "error400"]
               /\ UNCHANGED <<phase, dbVars, session, bootVars>>
          ELSE /\ seq < MaxProps
               /\ properties' = properties \cup {PropertyRow(id, form, id)}
               /\ seq' = IF id > seq THEN id ELSE seq
               /\ last' = [r EXCEPT !.opened = 2, !.closed = 2, !.writes = 1, !.rowid = id,
                                    !.flash = "Property added.",
                                    !.outcome = "redirect_properties"]
               /\ UNCHANGED <<phase, tables, users, deleted, session, bootVars>>

\* GET /properties/<pid>/edit and POST /properties/<pid>/edit
EditProperty(pid, method, form) ==
    /\ phase = "serving"
    /\ LET r == [Req("edit_property", method) EXCEPT !.form = form, !.pid = pid]
           u == current_user(session, users)
           p == GetById(properties, pid)
       IN IF ~IsSome(u) THEN Unauthenticated(r)
          ELSE IF ~IsSome(p)
          THEN /\ last' = [r EXCEPT !.reads = 1, !.opened = 2, !.closed = 2,
                                    !.flash = "Property not found.",
                                    !.outcome = "redirect_properties"]
               /\ UNCHANGED <<phase, dbVars, session, bootVars>>
          ELSE IF method = "GET"
          THEN /\ last' = [r EXCEPT !.reads = 1, !.opened = 4, !.closed = 4, !.p = p,
                                    !.outcome = RenderOutcome(u)]
               /\ UNCHANGED <<phase, dbVars, session, bootVars>>
          ELSE IF ~IsSome(form.name)
          THEN /\ last' = [r EXCEPT !.reads = 1, !.opened = 2, !.closed = 1, !.p = p,
                                    !.outcome = "error400"]
               /\ UNCHANGED <<phase, dbVars, session, bootVars>>
          ELSE /\ properties' = (properties \ {Val(p)}) \cup {UpdatedRow(Val(p), form)}
               /\ last' = [r EXCEPT !.reads = 1, !.writes = 1, !.opened = 2, !.closed = 2,
                                    !.p = p, !.flash = "Property updated.",
                                    !.outcome = "redirect_properties"]
               /\ UNCHANGED <<phase, tables, users, seq, deleted, session, bootVars>>

\* GET /properties/<pid>/delete
DeleteProperty(pid) ==
    /\ phase = "serving"
    /\ LET r == [Req("delete_property", "GET") EXCEPT !.pid = pid]
           u == current_user(session, users)
       IN IF ~IsSome(u) THEN Unauthenticated(r)
          ELSE /\ properties' = {x \in properties : x.id # pid}
               /\ deleted' = IF IsSome(GetById(properties, pid))
                             THEN deleted \cup {pid} ELSE deleted
               /\ last' = [r EXCEPT !.writes = 1, !.opened = 2, !.closed = 2,
                                    !.flash = "Property deleted.",
                                    !.outcome = "redirect_properties"]
               /\ UNCHANGED <<phase, tables, users, seq, session, bootVars>>

----------------------------------------------------------------------------
(* The application: one process, one browser, requests one at a time. *)

Workers == {"w1", "w2"}

\* a database file left by an earlier run of the application
PersistedRow ==
    [id |-> 1, name |-> <<"A", "b">>, address |-> Some(<<"b", "_">>),
     status |-> Occupied, created_at |-> 1]

BootIdle ==
    /\ pc = [w \in Workers |-> "idle"]
    /\ cnt = [w \in Workers |-> 0]
    /\ pend = [w \in Workers |-> None]
    /\ wlock = "free"
    /\ err = [w \in Workers |-> "none"]

Init ==
    /\ phase = "import"
    /\ \/ /\ tables = {}
          /\ users = {}
          /\ properties = {}
          /\ seq = 0
       \/ /\ tables = TableNames
          /\ users = {SeedRow({})}
          /\ properties = {PersistedRow}
          /\ seq = 1
    /\ deleted = {}
    /\ session \in {NoUid, StaleUid}
    /\ last = NoReq
    /\ BootIdle

Next ==
    \/ ModuleInit
    \/ MainInit
    \/ Restart
    \/ Index
    \/ \E m \in {"GET", "POST"} : \E f \in LoginForms : Login(m, f)
    \/ Logout
    \/ Dashboard
    \/ \E qa \in QArgs : \E sa \in StatusArgs : Properties(qa, sa)
    \/ \E m \in {"GET", "POST"} : \E f \in Forms : NewProperty(m, f)
    \/ \E pid \in Pids : \E m \in {"GET", "POST"} : \E f \in Forms : EditProperty(pid, m, f)
    \/ \E pid \in Pids : DeleteProperty(pid)

Spec == Init /\ [][Next]_vars

----------------------------------------------------------------------------
(* Concurrent first start: two workers import the module at once, and each *)
(* runs the module-level try: init_db() against the same fresh file.  Each *)
(* statement of init_db is one step.  A worker's INSERT takes the file's   *)
(* write lock until its commit; a second writer waits for the lock, or     *)
(* gives up when sqlite3.connect's timeout runs out.                       *)

appVars == <<phase, properties, seq, deleted, session, last>>

\* conn = get_db()
BootConnect(w) ==
    /\ pc[w] = "idle"
    /\ pc' = [pc EXCEPT ![w] = "opened"]
    /\ UNCHANGED <<appVars, tables, users, cnt, pend, wlock, err>>

\* c = conn.cursor()
BootCursor(w) ==
    /\ pc[w] = "opened"
    /\ pc' = [pc EXCEPT ![w] = "connected"]
    /\ UNCHANGED <<appVars, tables, users, cnt, pend, wlock, err>>

\* CREATE TABLE IF NOT EXISTS users
BootCreateUsers(w) ==
    /\ pc[w] = "connected"
    /\ tables' = tables \cup {"users"}
    /\ pc' = [pc EXCEPT ![w] = "users_ok"]
    /\ UNCHANGED <<appVars, users, cnt, pend, wlock, err>>

\* CREATE TABLE IF NOT EXISTS properties
BootCreateProperties(w) ==
    /\ pc[w] = "users_ok"
    /\ tables' = tables \cup {"properties"}
    /\ pc' = [pc EXCEPT ![w] = "props_ok"]
    /\ UNCHANGED <<appVars, users, cnt, pend, wlock, err>>

\* conn.commit() after the schema
BootCommitSchema(w) ==
    /\ pc[w] = "props_ok"
    /\ pc' = [pc EXCEPT ![w] = "committed"]
    /\ UNCHANGED <<appVars, tables, users, cnt, pend, wlock, err>>

\* if SELECT COUNT(*) FROM users == 0: only committed rows are counted
BootCount(w) ==
    /\ pc[w] = "committed"
    /\ cnt' = [cnt EXCEPT ![w] = Cardinality(users)]
    /\ pc' = [pc EXCEPT ![w] = IF SeedNeeded(Cardinality(users)) THEN "seeding" ELSE "closing"]
    /\ UNCHANGED <<appVars, tables, users, pend, wlock, err>>

\* INSERT INTO users: takes the write lock, then the UNIQUE check on email; a
\* rejected statement raises IntegrityError with the transaction left open
BootInsert(w) ==
    /\ pc[w] = "seeding"
    /\ wlock = "free"
    /\ wlock' = w
    /\ IF UniqueEmailOk(users, SeedRow(users).email)
       THEN /\ pend' = [pend EXCEPT ![w] = Some(SeedRow(users))]
            /\ pc' = [pc EXCEPT ![w] = "inserted"]
            /\ err' = err
       ELSE /\ err' = [err EXCEPT ![w] = "IntegrityError"]
            /\ pc' = [pc EXCEPT ![w] = "raised"]
            /\ pend' = pend
    /\ UNCHANGED <<appVars, tables, users, cnt>>

\* INSERT INTO users while the other connection holds the write lock for longer
\* than the connection's timeout: OperationalError (database is locked)
BootInsertBusy(w) ==
    /\ pc[w] = "seeding"
    /\ wlock \notin {"free", w}
    /\ err' = [err EXCEPT ![w] = "OperationalError"]
    /\ pc' = [pc EXCEPT ![w] = "raised"]
    /\ UNCHANGED <<appVars, tables, users, cnt, pend, wlock>>

\* conn.commit() after the seed
BootCommitSeed(w) ==
    /\ pc[w] = "inserted"
    /\ users' = users \cup {Val(pend[w])}
    /\ pend' = [pend EXCEPT ![w] = None]
    /\ wlock' = "free"
    /\ pc' = [pc EXCEPT ![w] = "closing"]
    /\ UNCHANGED <<appVars, tables, cnt, err>>

\* conn.close()
BootClose(w) ==
    /\ pc[w] = "closing"
    /\ pc' = [pc EXCEPT ![w] = "done"]
    /\ UNCHANGED <<appVars, tables, users, cnt, pend, wlock, err>>

\* except Exception as e: print("DB init error:", e); the connection of the
\* abandoned init_db frame goes away with it, and so does its open transaction
BootExcept(w) ==
    /\ pc[w] = "raised"
    /\ pc' = [pc EXCEPT ![w] = "logged"]
    /\ wlock' = IF wlock = w THEN "free" ELSE wlock
    /\ UNCHANGED <<appVars, tables, users, cnt, pend, err>>

InitFirstStart ==
    /\ phase = "import"
    /\ tables = {}
    /\ users = {}
    /\ properties = {}
    /\ seq = 0
    /\ deleted = {}
    /\ session = NoUid
    /\ last = NoReq
    /\ BootIdle

NextFirstStart ==
    \E w \in Workers :
        \/ BootConnect(w)
        \/ BootCursor(w)
        \/ BootCreateUsers(w)
        \/ BootCreateProperties(w)
        \/ BootCommitSchema(w)
        \/ BootCount(w)
        \/ BootInsert(w)
        \/ BootInsertBusy(w)
        \/ BootCommitSeed(w)
        \/ BootClose(w)
        \/ BootExcept(w)

SpecFirstStart == InitFirstStart /\ [][NextFirstStart]_vars

----------------------------------------------------------------------------
(* Properties. *)

ProtectedOps == {"dashboard", "properties", "new_property", "edit_property", "delete_property"}

\* the session of the last request resolved to no identity
NoIdentity == last.sess = NoUid \/ ~ \E u \in users : u.id = last.sess

\* the last request ran its handler behind login_required
Executed == last.op \in ProtectedOps /\ last.outcome # "redirect_login"

RowSet(idSeq) == {idSeq[i] : i \in 1..Len(idSeq)}

\* q occurs in s, ASCII letter case ignored
Contains(s, q) ==
    \E i \in 0..(Len(s) - Len(q)) :
        \A j \in 1..Len(q) : LowerChar(s[i + j]) = LowerChar(q[j])

\* C1: a protected operation requested by a session that resolves to no
\* identity (no user_id, or a user_id without a users row) answers with the
\* redirect to login and the "Please log in first." notice, and runs no
\* statement on the properties table.
C1_UnauthenticatedShortCircuits ==
    (last.op \in ProtectedOps /\ NoIdentity) =>
        /\ last.outcome = "redirect_login"
        /\ last.flash = "Please log in first."
        /\ last.reads = 0
        /\ last.writes = 0

\* a POST of a new property under a user_id that has no row, on a store that
\* holds a row, was turned away
C1_Witness ==
    /\ last.op = "new_property"
    /\ last.method = "POST"
    /\ IsSome(last.form.name)
    /\ last.sess = StaleUid
    /\ last.outcome = "redirect_login"
    /\ properties # {}

\* C2: a run of init_db on a store with no user leaves exactly one user, with
\* the seed email; once the store holds a user, no step (a later init_db run
\* or any request) changes the users table.
C2_InitDbIdempotent ==
    [][ /\ (phase \in {"import", "main"} /\ phase' # phase /\ users = {}) =>
              (Cardinality(users') = 1 /\ \A u \in users' : u.email = SeedEmail)
        /\ (users # {}) => (users' = users) ]_vars

\* the entry point's second init_db found one user and left one user
C2_Witness ==
    /\ last.op = "init_db_main"
    /\ last.usersBefore = 1
    /\ Cardinality(users) = 1
    /\ \A u \in users : u.email = SeedEmail

\* C3: with a non-empty text filter, the listing returns exactly the rows that
\* hold the filter as a substring of name or address (letter case ignored, the
\* widest reading of the substring test).
C3_ListingIsSubstringFilter ==
    (last.op = "properties" /\ Executed /\ Strip(GetOr(last.q, <<>>)) # <<>>) =>
        \A r \in properties :
            (r.id \in RowSet(last.rows)) <=>
                \/ Contains(r.name, Strip(GetOr(last.q, <<>>)))
                \/ IsSome(r.address) /\ Contains(Val(r.address), Strip(GetOr(last.q, <<>>)))

\* C4: the listing with q and status returns the intersection of the listing
\* with q alone and the listing with status alone, and every row when neither
\* is given.
C4_FiltersIntersect ==
    (last.op = "properties" /\ Executed) =>
        /\ RowSet(last.rows) =
              RowSet(Ids(ListRows(properties, last.q, None)))
              \cap RowSet(Ids(ListRows(properties, None, last.status)))
        /\ (GetOr(last.q, <<>>) = <<>> /\ GetOr(last.status, <<>>) = <<>>) =>
              RowSet(last.rows) = {r.id : r \in properties}

\* a listing with both filters given returned some rows, and fewer than the
\* text filter alone returns
C4_Witness ==
    /\ last.op = "properties"
    /\ Executed
    /\ GetOr(last.q, <<>>) # <<>>
    /\ GetOr(last.status, <<>>) # <<>>
    /\ last.rows # <<>>
    /\ Len(last.rows) < Len(ListRows(properties, last.q, None))

\* C5: a row removed by delete_property is absent from the lookup by id, the
\* edit of its id answers "Property not found.", no listing under any filter
\* returns it, and no later insert is given its id.
C5_DeletedStaysAbsent ==
    \A id \in deleted :
        /\ GetById(properties, id) = None
        /\ \A qa \in QArgs : \A sa \in StatusArgs :
              id \notin RowSet(Ids(ListRows(properties, qa, sa)))
        /\ (last.op = "properties" /\ Executed) => id \notin RowSet(last.rows)
        /\ (last.op = "edit_property" /\ Executed /\ last.pid = id) =>
              last.flash = "Property not found."
        /\ (last.op = "new_property" /\ last.writes = 1) => last.rowid # id

\* an insert made after a delete
C5_Witness ==
    /\ deleted # {}
    /\ last.op = "new_property"
    /\ last.writes = 1
    /\ last.rowid \notin deleted
    /\ IsSome(GetById(properties, last.rowid))

\* C6: right after new_property inserted a row, the lookup by its id returns
\* the submitted name, address and status, and status "vacant" when the form
\* had no status field.
C6_InsertThenLookup ==
    (last.op = "new_property" /\ last.writes = 1) =>
        LET p == GetById(properties, last.rowid)
        IN /\ IsSome(p)
           /\ Val(p).name = Val(last.form.name)
           /\ Val(p).address = last.form.address
           /\ Val(p).status = (IF IsSome(last.form.status) THEN Val(last.form.status) ELSE Vacant)

\* a form without a status field was inserted and reads back as vacant
C6_Witness ==
    /\ last.op = "new_property"
    /\ last.writes = 1
    /\ ~IsSome(last.form.status)
    /\ IsSome(GetById(properties, last.rowid))
    /\ Val(GetById(properties, last.rowid)).status = Vacant

\* C7: the status of every stored property is "vacant" or "occupied".
C7_StatusIsKnown ==
    \A r \in properties : r.status \in {Vacant, Occupied}

\* C8: a successful login leaves the session holding the matching user's id,
\* a failed login leaves the session as it was, and after a logout request
\* the session resolves to no identity.
C8_LoginAndLogout ==
    /\ (last.op = "login" /\ last.outcome = "redirect_dashboard") =>
          \E u \in users : /\ u.email = Strip(Lower(Val(last.login.email)))
                           /\ session = u.id
    /\ (last.op = "login" /\ last.outcome # "redirect_dashboard") => session = last.sess
    /\ (last.op = "logout") => current_user(session, users) = None

\* C9: every run of init_db and every request closes each connection it opens.
C9_ConnectionsReleased ==
    last.opened = last.closed

\* C10: when two workers run init_db at once on a fresh file, the seed email
\* is never stored twice, both runs end, the store then holds exactly one
\* user, and a run whose INSERT the UNIQUE constraint rejected is logged by the
\* module's except clause.
C10_ConcurrentSeed ==
    /\ \A u1 \in users : \A u2 \in users : u1.email = u2.email => u1 = u2
    /\ (\A w \in Workers : pc[w] \in {"done", "logged"}) =>
          /\ Cardinality(users) = 1
          /\ \A u \in users : u.email = SeedEmail
          /\ \A w \in Workers : err[w] = "IntegrityError" => pc[w] = "logged"
    /\ \A w \in Workers : err[w] # "none" => pc[w] \in {"raised", "logged"}

\* both workers counted zero users, one stored the seed, and the other's INSERT
\* was rejected and logged
C10_Witness ==
    /\ \A w \in Workers : pc[w] \in {"done", "logged"}
    /\ \A w \in Workers : cnt[w] = 0
    /\ \E w \in Workers : err[w] = "IntegrityError" /\ pc[w] = "logged"
    /\ Cardinality(users) = 1
====
